---- MODULE Spec2Model ----
(***************************************************************************)
(* A model of the ranking acquisition pipeline of ssm-rank-scraper:        *)
(* year_parser.py, grabber.py (get_columns, account-code extraction,       *)
(* scan_page, grab) and ssm_rank_scraper.py (dfs_are_equal, scrape).       *)
(*                                                                         *)
(* Text is modelled as a sequence of one-character strings, so that the    *)
(* string operations of the code (len, replace, rsplit, strip, re.sub,     *)
(* int, strptime) are computed and not assumed.                            *)
(*                                                                         *)
(* The module holds several specifications over one set of variables; a    *)
(* specification leaves the variables of the others at Idle.               *)
(***************************************************************************)
EXTENDS Integers, Sequences, FiniteSets, TLC

VARIABLES
    pc,                  \* position of the operation under study
    year,                \* get_columns: the year argument (text)
    columns,             \* get_columns: its outcome
    authentication_link, \* account code: the link (its query pairs)
    previdence_code,     \* account code: the outcome
    cognome_nome,        \* name/DOB cell text
    parsed,              \* name/DOB: the derived (CognomeNome, Nascita)
    df,                  \* dfs_are_equal: the new dataset
    other_df,            \* dfs_are_equal: the last snapshot
    equal,               \* dfs_are_equal: the outcome
    site,                \* grab: the remote ranking, page by page
    workers,             \* grab: size of the worker pool
    taskqueue,           \* grab: chunks of page numbers not yet taken
    running,             \* grab: per worker, the pages left of its chunk
    dfs,                 \* grab: per page number, the result of scan_page
    completed,           \* grab: page numbers in order of completion
    fetches,             \* grab: per page number, the GETs issued for it
    rank_df,             \* grab: the outcome (Dataset or error)
    persisted,           \* scrape: what was written to the rank workbook
    workbook,            \* scrape: the rank workbook on disk
    backup_file,         \* scrape: the backup copy of the rank workbook
    call,                \* scrape: the arguments and Dataset of the run
    log,                 \* scrape: the last line written about the rank file
    last_written,        \* scrape: the label of the sheet saved most recently
    stdout,              \* scan_page: the lines printed about parsing errors
    page_one,            \* detect_limit: the response to the GET of page 1
    upper_limit,         \* detect_limit: the outcome
    tds,                 \* parse_data: the cells of one table row
    parsed_row,          \* parse_data: the outcome (the row dict)
    record,              \* grab: the row's columns in the final Dataset
    notes,               \* grab: the note column of the frame
    derived,             \* grab: the Specializzazione/Sede columns derived
    min_pts_df,          \* scrape: outcome of the minimum-score summary
    number_of_contracts_df  \* scrape: outcome of the contract-count download

yearVars == <<year, columns>>
linkVars == <<authentication_link, previdence_code>>
nameVars == <<cognome_nome, parsed>>
diffVars == <<df, other_df, equal>>
grabVars == <<site, workers, taskqueue, running, dfs, completed, fetches,
              rank_df, persisted, stdout>>
scrapeVars == <<workbook, backup_file, call, log, last_written>>
limitVars == <<page_one, upper_limit>>
rowVars == <<tds, parsed_row, record>>
noteVars == <<notes, derived>>
auxVars == <<min_pts_df, number_of_contracts_df>>
vars == <<pc, yearVars, linkVars, nameVars, diffVars, grabVars, scrapeVars,
          limitVars, rowVars, noteVars, auxVars>>

Idle == <<>>

YearIdle == year = Idle /\ columns = Idle
LinkIdle == authentication_link = Idle /\ previdence_code = Idle
NameIdle == cognome_nome = Idle /\ parsed = Idle
DiffIdle == df = Idle /\ other_df = Idle /\ equal = Idle
GrabIdle ==
    /\ site = Idle /\ workers = Idle /\ taskqueue = Idle /\ running = Idle
    /\ dfs = Idle /\ completed = Idle /\ fetches = Idle
    /\ rank_df = Idle /\ persisted = Idle /\ stdout = Idle
ScrapeIdle ==
    workbook = Idle /\ backup_file = Idle /\ call = Idle /\ log = Idle /\ last_written = Idle
LimitIdle == page_one = Idle /\ upper_limit = Idle
RowIdle == tds = Idle /\ parsed_row = Idle /\ record = Idle
NoteIdle == notes = Idle /\ derived = Idle
AuxIdle == min_pts_df = Idle /\ number_of_contracts_df = Idle

(***************************************************************************)
(* Text helpers                                                            *)
(***************************************************************************)
Digits == <<"0", "1", "2", "3", "4", "5", "6", "7", "8", "9">>

IsDigit(c) == \E i \in 1..10 : Digits[i] = c

DigitValue(c) == (CHOOSE i \in 1..10 : Digits[i] = c) - 1

AllDigits(s) == \A i \in 1..Len(s) : IsDigit(s[i])

RECURSIVE DecimalValue(_)
DecimalValue(s) ==
    IF s = <<>> THEN 0
    ELSE 10 * DecimalValue(SubSeq(s, 1, Len(s) - 1)) + DigitValue(s[Len(s)])

RECURSIVE SeqsUpTo(_, _)
SeqsUpTo(S, n) ==
    IF n = 0 THEN {<<>>}
    ELSE LET shorter == SeqsUpTo(S, n - 1)
         IN  shorter \cup {Append(s, c) : s \in shorter, c \in S}

(***************************************************************************)
(* year_parser.py and get_columns                                          *)
(***************************************************************************)
NoError == "none"

Ok(v) == [err |-> NoError, val |-> v]

Raise(e) == [err |-> e, val |-> <<>>]

\* parse_year_long: two characters get "20" in front, four are kept, any
\* other length raises UnrecognizedYearError. Only the length is looked at.
parse_year_long(y) ==
    IF Len(y) = 2 THEN Ok(<<"2", "0">> \o y)
    ELSE IF Len(y) = 4 THEN Ok(y)
    ELSE Raise("UnrecognizedYearError")

\* int(text): ValueError unless the text is a decimal numeral.
int(s) ==
    IF s # <<>> /\ AllDigits(s) THEN Ok(DecimalValue(s)) ELSE Raise("ValueError")

parse_year_int(y) ==
    LET long == parse_year_long(y)
    IN  IF long.err # NoError THEN long ELSE int(long.val)

Columns2018 == <<"#", "cognome_nome", "Tot", "Prova", "Titoli", "Stato", "Note">>

Columns2019 ==
    <<"#", "cognome_nome", "Tot", "Prova", "Titoli", "Stato",
      "Note_sessione_straordinaria", "Note_immatricolazione">>

get_columns(y) ==
    LET n == parse_year_int(y)
    IN  IF n.err # NoError THEN n
        ELSE IF n.val <= 2018 THEN Ok(Columns2018)
        ELSE Ok(Columns2019)

\* A year of each schema generation, in the long and in the short form.
RankingYears == {<<"2", "0", "1", "8">>, <<"1", "9">>}

MaxYearLen == 4

YearAlphabet == {"0", "1", "2", "8", "9", "a"}

YearInputs == SeqsUpTo(YearAlphabet, MaxYearLen)

InitYear ==
    /\ pc = "input"
    /\ year \in YearInputs
    /\ columns = Idle
    /\ LinkIdle /\ NameIdle /\ DiffIdle /\ GrabIdle /\ ScrapeIdle /\ LimitIdle /\ RowIdle /\ NoteIdle /\ AuxIdle

ResolveSchema ==
    /\ pc = "input"
    /\ year # Idle
    /\ columns' = get_columns(year)
    /\ pc' = "done"
    /\ UNCHANGED <<year, linkVars, nameVars, diffVars, grabVars, scrapeVars, limitVars, rowVars, noteVars, auxVars>>

NextYear == ResolveSchema

SpecYear == InitYear /\ [][NextYear]_vars

\* A year input in the sense of the schema resolver's contract: the four
\* digits of a year, or its last two.
IsYearText(y) == Len(y) \in {2, 4} /\ AllDigits(y)

YearNumber(y) == IF Len(y) = 2 THEN 2000 + DecimalValue(y) ELSE DecimalValue(y)

\* C8: 7 columns for every year <= 2018, 8 columns for every year > 2018,
\* for 2-digit and 4-digit inputs; every other input raises
\* UnrecognizedYearError (the spec's UnsupportedYearFormat) and yields no
\* schema.
C8_SchemaOrUnsupportedYear ==
    pc = "done" =>
        IF IsYearText(year)
        THEN /\ columns.err = NoError
             /\ YearNumber(year) <= 2018 => columns.val = Columns2018 /\ Len(columns.val) = 7
             /\ YearNumber(year) > 2018 => columns.val = Columns2019 /\ Len(columns.val) = 8
        ELSE columns.err = "UnrecognizedYearError"

\* The part of C8 the code keeps: digits-only years get the schema of their
\* generation, and no other input ever yields a schema.
C8_DigitYearsResolved ==
    pc = "done" =>
        IF IsYearText(year)
        THEN /\ columns.err = NoError
             /\ YearNumber(year) <= 2018 => columns.val = Columns2018 /\ Len(columns.val) = 7
             /\ YearNumber(year) > 2018 => columns.val = Columns2019 /\ Len(columns.val) = 8
        ELSE columns.err # NoError

C8_Witness ==
    /\ pc = "done"
    /\ year = <<"a", "a">>
    /\ columns.err = "ValueError"

(***************************************************************************)
(* Account code: _extract_previdence_code_from_authentication_link         *)
(***************************************************************************)
\* str.replace(old, ""): every non-overlapping occurrence, left to right.
RECURSIVE RemoveAll(_, _)
RemoveAll(s, old) ==
    IF Len(s) < Len(old) THEN s
    ELSE IF SubSeq(s, 1, Len(old)) = old
         THEN RemoveAll(SubSeq(s, Len(old) + 1, Len(s)), old)
         ELSE <<s[1]>> \o RemoveAll(Tail(s), old)

IsSpace(c) == c = " "

RECURSIVE lstrip(_)
lstrip(s) == IF s # <<>> /\ IsSpace(s[1]) THEN lstrip(Tail(s)) ELSE s

RECURSIVE rstrip(_)
rstrip(s) ==
    IF s # <<>> /\ IsSpace(s[Len(s)]) THEN rstrip(SubSeq(s, 1, Len(s) - 1)) ELSE s

strip(s) == rstrip(lstrip(s))

\* Positions where "_[0-9]{2,4}" matches; ".*$" then takes the rest of the text.
YearSuffixStarts(s) ==
    {i \in 1..Len(s) : /\ s[i] = "_"
                       /\ i + 2 <= Len(s)
                       /\ IsDigit(s[i + 1])
                       /\ IsDigit(s[i + 2])}

Min(S) == CHOOSE x \in S : \A y \in S : x <= y

Max(S) == CHOOSE x \in S : \A y \in S : x >= y

\* re.sub("_[0-9]{2,4}.*$", "", s): the leftmost match runs to the end.
StripYearSuffix(s) ==
    IF YearSuffixStarts(s) = {} THEN s
    ELSE SubSeq(s, 1, Min(YearSuffixStarts(s)) - 1)

\* parse_qs(urlparse(link).query)[key]: the values of the pairs named key, in
\* order, blank values dropped.
RECURSIVE QueryValues(_, _)
QueryValues(query, key) ==
    IF query = <<>> THEN <<>>
    ELSE LET rest == QueryValues(Tail(query), key)
         IN  IF query[1].k = key /\ query[1].v # <<>>
             THEN <<query[1].v>> \o rest
             ELSE rest

MEM == <<"M", "E", "M">>

_extract_previdence_code_from_authentication_link(link) ==
    LET values == QueryValues(link, "username")
    IN  IF values = <<>> THEN Raise("KeyError")
        ELSE Ok(strip(StripYearSuffix(RemoveAll(values[1], MEM))))

MaxCodeLen == 4

CodeAlphabet == {"M", "E", "A", "1"}

AccountCodes == SeqsUpTo(CodeAlphabet, MaxCodeLen) \ {<<>>}

YearSuffixes == {<<"_", "2", "2">>, <<"_", "2", "0", "2", "2">>, <<"_", "2", "2", "x">>}

YearParam == [k |-> "year_ssm", v |-> <<"2", "0", "2", "2">>]

\* gen_url_paged builds user=MEM<code>_<short year>; the capability link
\* carries the same value as its username parameter.
UsernameOf(code, suffix) == MEM \o code \o suffix

AuthenticationLinks ==
    {<<[k |-> "username", v |-> UsernameOf(c, x)], YearParam>> :
        c \in AccountCodes, x \in YearSuffixes}
    \cup {<<YearParam>>, <<[k |-> "username", v |-> <<>>], YearParam>>, <<>>}

InitLink ==
    /\ pc = "input"
    /\ authentication_link \in AuthenticationLinks
    /\ previdence_code = Idle
    /\ YearIdle /\ NameIdle /\ DiffIdle /\ GrabIdle /\ ScrapeIdle /\ LimitIdle /\ RowIdle /\ NoteIdle /\ AuxIdle

AccountCodeFrom ==
    /\ pc = "input"
    /\ authentication_link \in AuthenticationLinks
    /\ previdence_code' =
           _extract_previdence_code_from_authentication_link(authentication_link)
    /\ pc' = "done"
    /\ UNCHANGED <<authentication_link, yearVars, nameVars, diffVars, grabVars, scrapeVars, limitVars, rowVars, noteVars, auxVars>>

NextLink == AccountCodeFrom

SpecLink == InitLink /\ [][NextLink]_vars

HasUsername(link) == \E i \in 1..Len(link) : link[i].k = "username" /\ link[i].v # <<>>

UsernameValue(link) ==
    link[CHOOSE i \in 1..Len(link) : link[i].k = "username" /\ link[i].v # <<>>].v

\* The username value without its first three characters (the prefix) and
\* without its trailing "_<digits>..." part (from the last such "_").
CodeBetweenPrefixAndSuffix(u) ==
    SubSeq(u, Len(MEM) + 1, Max(YearSuffixStarts(u)) - 1)

\* C9: the account code is the username value less the leading MEM and the
\* trailing _<year-digits>... suffix, the rest unchanged; a link without the
\* username parameter raises (KeyError, the spec's MalformedCapabilityLink).
C9_OnlyPrefixAndSuffixRemoved ==
    pc = "done" =>
        IF HasUsername(authentication_link)
        THEN previdence_code =
                 Ok(CodeBetweenPrefixAndSuffix(UsernameValue(authentication_link)))
        ELSE previdence_code.err = "KeyError"

C9_Witness ==
    /\ pc = "done"
    /\ authentication_link =
           <<[k |-> "username", v |-> <<"M", "E", "M", "M", "E", "M", "1", "_", "2", "2">>], YearParam>>
    /\ previdence_code = Ok(<<"1">>)

(***************************************************************************)
(* Name / date-of-birth cell: parse_birthday and the CognomeNome column    *)
(***************************************************************************)
\* None in the Nascita column.
NoDate == [year |-> 0, month |-> 0, day |-> 0]

Positions(s, c) == {i \in 1..Len(s) : s[i] = c}

\* x.rsplit("(", 1): one piece when there is no "(", else the text before
\* the last "(" and the text after it.
rsplit_paren(x) ==
    IF Positions(x, "(") = {} THEN <<x>>
    ELSE LET i == Max(Positions(x, "("))
         IN  <<SubSeq(x, 1, i - 1), SubSeq(x, i + 1, Len(x))>>

\* x.split("(", 1): the same cut, made at the first "(".
split_paren(x) ==
    IF Positions(x, "(") = {} THEN <<x>>
    ELSE LET i == Min(Positions(x, "("))
         IN  <<SubSeq(x, 1, i - 1), SubSeq(x, i + 1, Len(x))>>

RECURSIVE SplitOn(_, _)
SplitOn(s, c) ==
    IF Positions(s, c) = {} THEN <<s>>
    ELSE LET i == Min(Positions(s, c))
         IN  <<SubSeq(s, 1, i - 1)>> \o SplitOn(SubSeq(s, i + 1, Len(s)), c)

IsLeap(y) == (y % 4 = 0 /\ y % 100 # 0) \/ y % 400 = 0

DaysInMonth(m, y) ==
    IF m = 2 THEN (IF IsLeap(y) THEN 29 ELSE 28)
    ELSE IF m \in {4, 6, 9, 11} THEN 30
    ELSE 31

\* datetime.strptime(text, "%d/%m/%Y"): day and month of one or two digits,
\* a year of four, "/" between them, nothing else; then a date that exists.
strptime_dmY(text) ==
    LET f == SplitOn(text, "/")
    IN  IF /\ Len(f) = 3
           /\ \A i \in 1..3 : f[i] # <<>> /\ AllDigits(f[i])
           /\ Len(f[1]) \in {1, 2}
           /\ Len(f[2]) \in {1, 2}
           /\ Len(f[3]) = 4
           /\ DecimalValue(f[2]) \in 1..12
           /\ DecimalValue(f[3]) >= 1
           /\ DecimalValue(f[1]) \in 1..DaysInMonth(DecimalValue(f[2]), DecimalValue(f[3]))
        THEN Ok([year |-> DecimalValue(f[3]), month |-> DecimalValue(f[2]),
                 day |-> DecimalValue(f[1])])
        ELSE Raise("ValueError")

\* parse_birthday: any exception (no "(", a text that is no date) gives None.
parse_birthday(x) ==
    LET pieces == rsplit_paren(x)
    IN  IF Len(pieces) < 2 THEN NoDate
        ELSE LET string_date == strip(RemoveAll(pieces[2], <<")">>))
                 datetime == strptime_dmY(string_date)
             IN  IF datetime.err # NoError THEN NoDate ELSE datetime.val

CognomeNomeFirstParen(x) == strip(split_paren(x)[1])

\* df["cognome_nome"].map(lambda x: x.rsplit("(", 1)[0].strip())
CognomeNome(x) == strip(rsplit_paren(x)[1])

NameTexts ==
    { <<"R", "o", "s", "s", "i", " ", "M", "a", "r", "i", "o">>,
      <<"D", "e", " ", "L", "u", "c", "a", " ", "(", "L", "i", "a", ")", " ", "A", "n", "n", "a">>,
      <<" ", "B", "o", " ">> }

DateTexts ==
    { <<"0", "1", "/", "0", "2", "/", "1", "9", "9", "0">>,
      <<"1", "/", "2", "/", "1", "9", "9", "0">>,
      <<"2", "9", "/", "0", "2", "/", "2", "0", "0", "0">>,
      <<"2", "9", "/", "0", "2", "/", "1", "9", "9", "0">>,
      <<"3", "1", "/", "0", "4", "/", "1", "9", "9", "1">>,
      <<"0", "1", "/", "1", "3", "/", "1", "9", "9", "0">>,
      <<"0", "0", "/", "0", "1", "/", "1", "9", "9", "0">>,
      <<"0", "1", "/", "0", "2", "/", "9", "0">>,
      <<"1", "9", "9", "0", "-", "0", "2", "-", "0", "1">>,
      <<"n", ".", "d", ".">>,
      <<>> }

\* The shapes of the cell: the name alone, the name and a parenthesized
\* text, the same with blanks inside, unclosed, or followed by more text.
CellTexts ==
    NameTexts
    \cup {n \o <<" ", "(">> \o d \o <<")">> : n \in NameTexts, d \in DateTexts}
    \cup {n \o <<"(", " ">> \o d \o <<" ", ")", " ">> : n \in NameTexts, d \in DateTexts}
    \cup {n \o <<" ", "(">> \o d : n \in NameTexts, d \in DateTexts}
    \cup {n \o <<" ", "(">> \o d \o <<")", " ", "j", "r">> : n \in NameTexts, d \in DateTexts}

InitName ==
    /\ pc = "input"
    /\ cognome_nome \in CellTexts
    /\ parsed = Idle
    /\ YearIdle /\ LinkIdle /\ DiffIdle /\ GrabIdle /\ ScrapeIdle /\ LimitIdle /\ RowIdle /\ NoteIdle /\ AuxIdle

\* grab, lines 311-312: the two derived columns of one record.
DeriveNameAndBirth ==
    /\ pc = "input"
    /\ cognome_nome \in CellTexts
    /\ parsed' = [CognomeNome |-> CognomeNome(cognome_nome),
                  Nascita |-> parse_birthday(cognome_nome)]
    /\ pc' = "done"
    /\ UNCHANGED <<cognome_nome, yearVars, linkVars, diffVars, grabVars, scrapeVars, limitVars, rowVars, noteVars, auxVars>>

NextName == DeriveNameAndBirth

SpecName == InitName /\ [][NextName]_vars

HasParen(x) == Positions(x, "(") # {}

BeforeFirstParen(x) == SubSeq(x, 1, Min(Positions(x, "(")) - 1)

BeforeLastParen(x) == SubSeq(x, 1, Max(Positions(x, "(")) - 1)

\* The parenthesized text: from the last "(" to the ")" that closes it (to
\* the end of the cell when it is never closed).
Parenthesized(x) ==
    LET open == Max(Positions(x, "("))
        closes == {j \in Positions(x, ")") : j > open}
    IN  SubSeq(x, open + 1, IF closes = {} THEN Len(x) ELSE Min(closes) - 1)

\* The text after the last "(", its ")" characters dropped, trimmed.
AfterLastParen(x) ==
    LET open == Max(Positions(x, "("))
        rest == SubSeq(x, open + 1, Len(x))
    IN  strip(SelectSeq(rest, LAMBDA c : c # ")"))

DateOf(text) == strptime_dmY(text)

\* C10 as the claim states it: the name is the trimmed text before the first
\* "(" (the full text when there is none) and the birthdate is the
\* parenthesized d/m/Y date, absent when there is no parenthesis or the
\* parenthesized text is no date.
C10_NameBeforeFirstParen ==
    pc = "done" =>
        /\ parsed.CognomeNome =
               IF HasParen(cognome_nome) THEN strip(BeforeFirstParen(cognome_nome))
               ELSE strip(cognome_nome)
        /\ parsed.Nascita =
               IF /\ HasParen(cognome_nome)
                  /\ DateOf(strip(Parenthesized(cognome_nome))).err = NoError
               THEN DateOf(strip(Parenthesized(cognome_nome))).val
               ELSE NoDate

\* C10 as amended: the name is the trimmed text before the last "(" (the
\* whole trimmed text when there is none); the birthdate is the d/m/Y date
\* written after the last "(" once ")" is dropped and the text trimmed, and
\* it is absent when there is no "(" or that text is no date.
C10_NameBeforeLastParen ==
    pc = "done" =>
        /\ parsed.CognomeNome =
               IF HasParen(cognome_nome) THEN strip(BeforeLastParen(cognome_nome))
               ELSE strip(cognome_nome)
        /\ parsed.Nascita =
               IF HasParen(cognome_nome) /\ DateOf(AfterLastParen(cognome_nome)).err = NoError
               THEN DateOf(AfterLastParen(cognome_nome)).val
               ELSE NoDate

C10_Witness ==
    /\ pc = "done"
    /\ cognome_nome = <<"D", "e", " ", "L", "u", "c", "a", " ", "(", "L", "i", "a", ")", " ", "A", "n", "n", "a", " ", "(", "0", "1", "/", "0", "2", "/", "1", "9", "9", "0", ")">>
    /\ parsed.CognomeNome = <<"D", "e", " ", "L", "u", "c", "a", " ", "(", "L", "i", "a", ")", " ", "A", "n", "n", "a">>
    /\ parsed.Nascita = [year |-> 1990, month |-> 2, day |-> 1]

(***************************************************************************)
(* Snapshot Differ: dfs_are_equal                                          *)
(*                                                                         *)
(* A dataset is its column labels and its rows of cells. Its row index is  *)
(* not kept: grab ends with reset_index(drop=True) and read_excel numbers   *)
(* the rows it reads, so both sides are indexed 0..n-1.                    *)
(***************************************************************************)
\* A cell for which notnull() is false (None, NaN).
Absent == "NaN"

NoCellIsNull(c) == TRUE

notnull(c) == c # Absent

shape(d) == <<Len(d.rows), Len(d.columns)>>

ColumnSet(d) == {d.columns[j] : j \in 1..Len(d.columns)}

\* df != other_df is defined for identically-labelled frames only; pandas
\* raises ValueError otherwise.
IdenticallyLabelled(a, b) == a.columns = b.columns /\ Len(a.rows) = Len(b.rows)

\* One cell of df != other_df: a comparison with NaN or None is never
\* equal, not even with another NaN.
ne(x, y) == x = Absent \/ y = Absent \/ x # y

\* ((df != other_df) & df.notnull() & other_df.notnull()).any(axis=1).sum()
DifferingRows(a, b) ==
    Cardinality({i \in 1..Len(a.rows) :
        \E j \in 1..Len(a.columns) :
            /\ ne(a.rows[i][j], b.rows[i][j])
            /\ notnull(a.rows[i][j])
            /\ notnull(b.rows[i][j])})

\* The expression of the try block: the conjunction is evaluated left to
\* right, and df != other_df raises ValueError ("Can only compare
\* identically-labeled DataFrame objects") when the labels do not line up.
Comparison(a, b) ==
    IF shape(a) # shape(b) THEN Ok(FALSE)
    ELSE IF \E c \in ColumnSet(a) : c \notin ColumnSet(b) THEN Ok(FALSE)
    ELSE IF ~IdenticallyLabelled(a, b) THEN Raise("ValueError")
    ELSE Ok(DifferingRows(a, b) = 0)

ExceptReturnsTrue == TRUE

\* except Exception as e: print(e); return False
ExceptReturns == FALSE

\* dfs_are_equal: any exception of the comparison is caught and gives False.
dfs_are_equal(a, b) ==
    IF Comparison(a, b).err # NoError THEN ExceptReturns
    ELSE Comparison(a, b).val

MaxRows == 1

ColumnNames == {"#", "Tot"}

CellValues == {Absent, "a", "b"}

ColumnLists ==
    {c \in SeqsUpTo(ColumnNames, Cardinality(ColumnNames)) :
        /\ c # <<>>
        /\ \A i, j \in 1..Len(c) : i # j => c[i] # c[j]}

RowsOf(width) ==
    UNION {[1..n -> [1..width -> CellValues]] : n \in 0..MaxRows}

Datasets ==
    UNION {{[columns |-> c, rows |-> r] : r \in RowsOf(Len(c))} : c \in ColumnLists}

InitDiff ==
    /\ pc = "input"
    /\ df \in Datasets
    /\ other_df \in Datasets
    /\ equal = Idle
    /\ YearIdle /\ LinkIdle /\ NameIdle /\ GrabIdle /\ ScrapeIdle /\ LimitIdle /\ RowIdle /\ NoteIdle /\ AuxIdle

IsUnchanged ==
    /\ pc = "input"
    /\ df \in Datasets
    /\ equal' = dfs_are_equal(df, other_df)
    /\ pc' = "done"
    /\ UNCHANGED <<df, other_df, yearVars, linkVars, nameVars, grabVars, scrapeVars, limitVars, rowVars, noteVars, auxVars>>

NextDiff == IsUnchanged

SpecDiff == InitDiff /\ [][NextDiff]_vars

SameCell(x, y) == (x = Absent /\ y = Absent) \/ (x # Absent /\ y # Absent /\ x = y)

PresentVersusAbsent(x, y) == (x = Absent) # (y = Absent)

\* C1: unchanged if and only if the shapes match, every column of the new
\* dataset exists in the last snapshot, and at every cell position both
\* values are absent or both are present and equal; a cell present on one
\* side and absent on the other makes the result "changed". (Frames whose
\* labels do not line up are "changed", as section 4.7 says of a comparison
\* that raises.)
C1_UnchangedIffCellsAgree ==
    pc = "done" =>
        IF shape(df) = shape(other_df) /\ df.columns # other_df.columns
        THEN equal = FALSE
        ELSE equal <=>
                /\ shape(df) = shape(other_df)
                /\ ColumnSet(df) \subseteq ColumnSet(other_df)
                /\ \A i \in 1..Len(df.rows) : \A j \in 1..Len(df.columns) :
                       SameCell(df.rows[i][j], other_df.rows[i][j])

C1_Witness ==
    /\ pc = "done"
    /\ df.columns = other_df.columns
    /\ Len(df.rows) = 1 /\ Len(other_df.rows) = 1
    /\ \E j \in 1..Len(df.columns) :
           PresentVersusAbsent(df.rows[1][j], other_df.rows[1][j])
    /\ equal = TRUE

HasAbsentCell(d) ==
    \E i \in 1..Len(d.rows) : \E j \in 1..Len(d.columns) : d.rows[i][j] = Absent

\* C18: a dataset compared with an exact copy of itself is unchanged, also
\* when it has absent cells; the result is the same with the two datasets
\* exchanged; and it is "changed" when a column of either is missing from
\* the other.
C18_ReflexiveAndSymmetric ==
    pc = "done" =>
        /\ df = other_df => equal = TRUE
        /\ equal = dfs_are_equal(other_df, df)
        /\ ColumnSet(df) # ColumnSet(other_df) => equal = FALSE

C18_Witness ==
    /\ pc = "done"
    /\ df = other_df
    /\ Len(df.columns) = 2
    /\ HasAbsentCell(df)
    /\ equal = TRUE

(***************************************************************************)
(* Pagination Discoverer: detect_limit                                     *)
(*                                                                         *)
(* The response to the GET of page 1: its status code, whether the page    *)
(* holds the select element with id selPag, the texts of its option        *)
(* elements, and the number of tr elements of the page's table.            *)
(***************************************************************************)
\* _convert_option_text_to_integer: int(tag.text.strip())
_convert_option_text_to_integer(text) == int(strip(text))

\* detect_limit: the status is asserted to be 200; bs.find gives None when
\* the select is not there and None has no find_all (AttributeError); int
\* and max raise ValueError on a text that is no numeral and on no options.
detect_limit(r) ==
    IF r.status_code # 200 THEN Raise("AssertionError")
    ELSE IF ~r.select THEN Raise("AttributeError")
    ELSE IF r.options = <<>> THEN Raise("ValueError")
    ELSE IF \E i \in 1..Len(r.options) :
                _convert_option_text_to_integer(r.options[i]).err # NoError
    THEN Raise("ValueError")
    ELSE Ok(Max({_convert_option_text_to_integer(r.options[i]).val :
                     i \in 1..Len(r.options)}))

MaxOptions == 3

OptionTexts == {<<"1">>, <<" ", "2", " ">>, <<"3">>, <<"1", "0">>}

StatusCodes == {200, 500}

\* tr elements on page 1: none, the header alone, the header and two rows.
TableRows == {0, 1, 3}

FirstPages ==
    {[status_code |-> c, select |-> TRUE, options |-> o, trs |-> t] :
        c \in StatusCodes, o \in SeqsUpTo(OptionTexts, MaxOptions), t \in TableRows}
    \cup {[status_code |-> c, select |-> FALSE, options |-> <<>>, trs |-> t] :
        c \in StatusCodes, t \in TableRows}

InitLimit ==
    /\ pc = "input"
    /\ page_one \in FirstPages
    /\ upper_limit = Idle
    /\ YearIdle /\ LinkIdle /\ NameIdle /\ DiffIdle /\ GrabIdle /\ ScrapeIdle
    /\ RowIdle /\ NoteIdle /\ AuxIdle

\* grab, line 296: upper_limit = detect_limit(s, year, previdence_code)
DiscoverPageCount ==
    /\ pc = "input"
    /\ page_one \in FirstPages
    /\ upper_limit' = detect_limit(page_one)
    /\ pc' = "done"
    /\ UNCHANGED <<page_one, yearVars, linkVars, nameVars, diffVars, grabVars,
                   scrapeVars, rowVars, noteVars, auxVars>>

NextLimit == DiscoverPageCount

SpecLimit == InitLimit /\ [][NextLimit]_vars

\* The largest page index the page selector offers.
MaxOffered(r) == Max({DecimalValue(strip(r.options[i])) : i \in 1..Len(r.options)})

\* A table with a header row and at least one row under it.
NonEmptyTable(r) == r.trs >= 2

\* C11: on a page 1 that was served, discoverPageCount returns the largest
\* page index the page selector offers; without the selector it returns 1
\* when the table of page 1 is not empty; and when it fails for want of the
\* selector the error is PaginationControlNotFound, never another one.
C11_MaxOfferedOrControlNotFound ==
    (pc = "done" /\ page_one.status_code = 200) =>
        IF page_one.select /\ page_one.options # <<>>
        THEN upper_limit = Ok(MaxOffered(page_one))
        ELSE IF ~page_one.select /\ NonEmptyTable(page_one)
        THEN upper_limit = Ok(1)
        ELSE upper_limit.err = "PaginationControlNotFound"

C11_Witness ==
    /\ pc = "done"
    /\ page_one.status_code = 200
    /\ ~page_one.select
    /\ NonEmptyTable(page_one)
    /\ upper_limit.err = "AttributeError"

(***************************************************************************)
(* The ranking pipeline: scan_page, grab, and scrape's call of grab        *)
(*                                                                         *)
(* The remote ranking is a list of rows cut into pages of PageSize rows.   *)
(* A row is a numbered candidate or an anomaly row, whose rank cell holds  *)
(* the star marker StarText; numbered rows count up from the first rank.   *)
(* Each page request is answered with the page's table, with a page        *)
(* without table rows, with HTTP 500, or with a table whose last row has   *)
(* fewer cells than parse_data reads.                                      *)
(***************************************************************************)
MaxRanking == 5

PageSize == 2

MaxWorkers == 2

FirstRanks == {1, 10}

Responses == {"table", "no_rows", "http_500", "bad_row"}

Ceil(a, b) == (a + b - 1) \div b

\* The pages of the ranking: PageSize rows a page, one page when it is empty.
PageCount(s) == IF Len(s.marks) = 0 THEN 1 ELSE Ceil(Len(s.marks), PageSize)

Sites ==
    UNION {{[first |-> f, marks |-> m, response |-> r] :
               f \in FirstRanks,
               r \in [1..(IF Len(m) = 0 THEN 1 ELSE Ceil(Len(m), PageSize)) -> Responses]} :
           m \in SeqsUpTo({"n", "*"}, MaxRanking)}

RECURSIVE DecimalText(_)
DecimalText(n) ==
    IF n < 10 THEN <<Digits[n + 1]>>
    ELSE DecimalText(n \div 10) \o <<Digits[(n % 10) + 1]>>

StarText == <<"(", "*", ")">>

\* Page 1 as detect_limit gets it: the selector offers every page of the
\* ranking.
FirstPage(s) ==
    [status_code |-> 200, select |-> TRUE,
     options |-> [n \in 1..PageCount(s) |-> DecimalText(n)],
     trs |-> Cardinality({k \in 1..Len(s.marks) : k <= PageSize}) + 1]

\* grab, line 296
UpperLimit(s) == detect_limit(FirstPage(s)).val

NumberedBefore(s, k) == Cardinality({i \in 1..(k - 1) : s.marks[i] = "n"})

\* The text of the rank cell of row k of the ranking.
RankCellText(s, k) ==
    IF s.marks[k] = "*" THEN StarText
    ELSE DecimalText(s.first + NumberedBefore(s, k))

PageRows(s, n) ==
    {k \in 1..Len(s.marks) : (n - 1) * PageSize < k /\ k <= n * PageSize}

\* A value of the "#" column: a float, a text, or NaN.
Num(n) == [kind |-> "num", num |-> n, text |-> <<>>]

Str(t) == [kind |-> "str", num |-> 0, text |-> t]

NaN == [kind |-> "nan", num |-> 0, text |-> <<>>]

\* parse_data, columns 0..4: float(text) when the text is a number, else
\* the stripped text.
parse_number(text) ==
    IF strip(text) # <<>> /\ AllDigits(strip(text))
    THEN Num(DecimalValue(strip(text)))
    ELSE Str(strip(text))

\* The results scan_page can return.
DataFrame(rows) == [kind |-> "DataFrame", rows |-> rows, code |-> 0, error |-> NoError]

StatusCode(c) == [kind |-> "status", rows |-> <<>>, code |-> c, error |-> NoError]

NoneResult == [kind |-> "None", rows |-> <<>>, code |-> 0, error |-> NoError]

NotYet == [kind |-> "pending", rows |-> <<>>, code |-> 0, error |-> NoError]

\* scan_page did not return: the exception of parse_data left it.
Raised(e) == [kind |-> "exception", rows |-> <<>>, code |-> 0, error |-> e]

\* The index among the page's <tr> of its last row (the header is tr 0).
LastTr(s, n) == Cardinality(PageRows(s, n))

\* scan_page: a status other than 200 is returned as the status code, a page
\* of fewer than two <tr> as None, and else the rows as a frame indexed from
\* 0. (A page with rows has a header row and one <tr> per row.) An exception
\* of parse_data (IndexError: tds[i] on a row without cell i) is printed and
\* raised again.
scan_page(s, n) ==
    IF s.response[n] = "http_500" THEN StatusCode(500)
    ELSE IF s.response[n] = "no_rows" \/ PageRows(s, n) = {} THEN NoneResult
    ELSE IF s.response[n] = "bad_row" THEN Raised("IndexError")
    ELSE LET lo == Min(PageRows(s, n))
             hi == Max(PageRows(s, n))
         IN  DataFrame([i \in 1..(hi - lo + 1) |->
                 [index |-> i - 1,
                  rank |-> parse_number(RankCellText(s, lo + i - 1)),
                  candidate |-> lo + i - 1]])

\* Pool.starmap cuts the page numbers into chunks of
\* ceil(pages / (4 * workers)) and hands each chunk to a worker.
ChunkSize(pages, w) == Ceil(pages, 4 * w)

Chunks(pages, w) ==
    [c \in 1..Ceil(pages, ChunkSize(pages, w)) |->
        [i \in 1..(IF c * ChunkSize(pages, w) <= pages
                   THEN ChunkSize(pages, w)
                   ELSE pages - (c - 1) * ChunkSize(pages, w)) |->
            (c - 1) * ChunkSize(pages, w) + i]]

\* starmap returns once every chunk has been taken and finished.
SomeTaskFinished(queue, run, done) == done # <<>>

StarmapReturned(queue, run, done) ==
    /\ queue = <<>>
    /\ \A w \in DOMAIN run : run[w] = <<>>

\* The results in the order the page fetches completed.
ResultsInCompletionOrder(results, done) == [i \in 1..Len(done) |-> results[done[i]]]

\* starmap returns the results in the order of its arguments: page 1..limit.
StarmapResults(results, done) == [n \in 1..Len(results) |-> results[n]]

RECURSIVE Concat(_)
Concat(frames) ==
    IF frames = <<>> THEN <<>> ELSE Head(frames).rows \o Concat(Tail(frames))

IsDataFrame(r) == r.kind = "DataFrame"

HasStar(v) == v.kind = "str" /\ \E i \in 1..Len(v.text) : v.text[i] = "*"

\* df["#"].replace({StarText: np.nan}).fillna(df["#"].shift(1)): a cell that
\* reads exactly StarText takes the scraped value of the row before it (NaN
\* for the first row).
Filled(rows, i) ==
    IF rows[i].rank = Str(StarText)
    THEN (IF i = 1 THEN NaN ELSE rows[i - 1].rank)
    ELSE rows[i].rank

\* .add(1), applied to the whole column.
AddOne(v) == IF v.kind = "num" THEN Num(v.num + 1) ELSE v

Resolved(rows, i) == AddOne(Filled(rows, i))

\* sort_values(by=["#"]): rows in ascending rank, rows of equal rank in the
\* order they had (numpy sorts short arrays by insertion).
RECURSIVE InsertSorted(_, _)
InsertSorted(sorted, row) ==
    IF sorted = <<>> THEN <<row>>
    ELSE IF sorted[Len(sorted)].rank <= row.rank THEN Append(sorted, row)
    ELSE Append(InsertSorted(SubSeq(sorted, 1, Len(sorted) - 1), row), sorted[Len(sorted)])

RECURSIVE sort_values(_)
sort_values(rows) ==
    IF rows = <<>> THEN <<>>
    ELSE InsertSorted(sort_values(SubSeq(rows, 1, Len(rows) - 1)), rows[Len(rows)])

\* reset_index(drop=True)
reset_index(rows) == [i \in 1..Len(rows) |-> [rows[i] EXCEPT !.index = i - 1]]

\* df["#"].str with "*" is absent: the accessor is taken of any column.
StrAccessorAlways(rows) == TRUE

\* df["#"].str: pandas gives the accessor of a column that holds a text
\* (dtype object) and raises AttributeError for a column of floats.
StrAccessor(rows) == \E i \in 1..Len(rows) : rows[i].rank.kind # "num"

\* grab, lines 336-366 and 394-395: the columns of the Dataset, in order.
cols(y, exceptions) ==
    LET listed ==
            IF parse_year_int(y).val <= 2018
            THEN <<"#", "CognomeNome", "Nascita", "Tot", "Prova", "Titoli", "Stato",
                   "Contratto", "Specializzazione", "Sede", "Note">>
            ELSE <<"#", "CognomeNome", "Nascita", "Tot", "Prova", "Titoli", "Stato",
                   "Contratto_sessione_straordinaria",
                   "Specializzazione_sessione_straordinaria",
                   "Sede_sessione_straordinaria",
                   "Contratto_sessione_immatricolazione",
                   "Specializzazione_immatricolazione", "Sede_immatricolazione",
                   "Note_sessione_straordinaria", "Note_immatricolazione">>
    IN  IF exceptions THEN <<listed[1], "Exception">> \o Tail(listed) ELSE listed

\* grab, lines 308-327 and 394-406, on the results of the page fetches. A
\* row stands for a candidate whose other cells parse and whose notes hold
\* their separator.
Assemble(y, results) ==
    LET frames == SelectSeq(results, IsDataFrame)
        rows == Concat(frames)
        n == Len(rows)
    IN  IF frames = <<>> THEN Raise("ValueError")
        ELSE IF ~StrAccessor(rows) THEN Raise("AttributeError")
        ELSE IF \E i \in 1..n : HasStar(rows[i].rank)
        THEN IF \E i \in 1..n : Resolved(rows, i).kind = "str" THEN Raise("TypeError")
             ELSE IF \E i \in 1..n : Resolved(rows, i).kind = "nan" THEN Raise("ValueError")
             ELSE Ok([columns |-> cols(y, TRUE),
                      rows |-> reset_index(sort_values(
                          [i \in 1..n |->
                              [index |-> rows[i].index,
                               rank |-> Resolved(rows, i).num,
                               Exception |-> IF HasStar(rows[i].rank) THEN "True" ELSE Absent,
                               candidate |-> rows[i].candidate]]))])
        ELSE IF \E i \in 1..n : rows[i].rank.kind = "str" /\ int(rows[i].rank.text).err # NoError
        THEN Raise("ValueError")
        ELSE Ok([columns |-> cols(y, FALSE),
                 rows |-> reset_index(sort_values(
                     [i \in 1..n |->
                         [index |-> rows[i].index,
                          rank |-> IF rows[i].rank.kind = "num" THEN rows[i].rank.num
                                   ELSE int(rows[i].rank.text).val,
                          Exception |-> Absent,
                          candidate |-> rows[i].candidate]]))])

\* starmap raises no exception: what a task raised is dropped.
StarmapNeverRaises(results) == FALSE

\* starmap raises when a task has raised.
StarmapRaises(results) == \E n \in DOMAIN results : results[n].kind = "exception"

\* The exception starmap raises: that of the first task that reported one.
FirstRaised(results, done) ==
    results[done[Min({i \in 1..Len(done) : results[done[i]].kind = "exception"})]].error

\* grab: everything after the page fetches.
grab(y, results, done) ==
    IF StarmapRaises(results) THEN Raise(FirstRaised(results, done))
    ELSE Assemble(y, StarmapResults(results, done))

InitGrab ==
    /\ pc = "fetch"
    /\ site \in Sites
    /\ workers \in 1..MaxWorkers
    /\ taskqueue = Chunks(UpperLimit(site), workers)
    /\ running = [w \in 1..workers |-> <<>>]
    /\ dfs = [n \in 1..UpperLimit(site) |-> NotYet]
    /\ fetches = [n \in 1..UpperLimit(site) |-> 0]
    /\ completed = <<>>
    /\ rank_df = Idle
    /\ persisted = Idle
    /\ stdout = {}
    /\ year \in RankingYears
    /\ columns = Idle
    /\ LinkIdle /\ NameIdle /\ DiffIdle /\ ScrapeIdle /\ LimitIdle /\ RowIdle /\ NoteIdle /\ AuxIdle

\* A pool worker takes the next chunk of page numbers.
TakeChunk(w) ==
    /\ pc = "fetch"
    /\ running[w] = <<>>
    /\ taskqueue # <<>>
    /\ running' = [running EXCEPT ![w] = Head(taskqueue)]
    /\ taskqueue' = Tail(taskqueue)
    /\ UNCHANGED <<pc, site, workers, dfs, completed, fetches, rank_df, persisted, stdout,
                   yearVars, linkVars, nameVars, diffVars, scrapeVars, limitVars, rowVars, noteVars, auxVars>>

\* A pool worker runs scan_page for the next page of its chunk. When
\* scan_page raises, its except clause has printed the page number and the
\* tr index, and the worker gives up the rest of the chunk (the chunk is one
\* call of starmapstar).
ScanPage(w) ==
    /\ pc = "fetch"
    /\ running[w] # <<>>
    /\ LET n == Head(running[w])
       IN  /\ dfs' = [dfs EXCEPT ![n] = scan_page(site, n)]
           /\ fetches' = [fetches EXCEPT ![n] = @ + 1]
           /\ completed' = Append(completed, n)
           /\ IF scan_page(site, n).kind = "exception"
              THEN /\ stdout' = stdout \cup {<<n, LastTr(site, n)>>}
                   /\ running' = [running EXCEPT ![w] = <<>>]
              ELSE /\ stdout' = stdout
                   /\ running' = [running EXCEPT ![w] = Tail(@)]
    /\ UNCHANGED <<pc, site, workers, taskqueue, rank_df, persisted,
                   yearVars, linkVars, nameVars, diffVars, scrapeVars, limitVars, rowVars, noteVars, auxVars>>

\* starmap has returned: grab builds the Dataset or raises.
AssembleDataset ==
    /\ pc = "fetch"
    /\ StarmapReturned(taskqueue, running, completed)
    /\ rank_df' = grab(year, dfs, completed)
    /\ pc' = IF rank_df'.err = NoError THEN "grabbed" ELSE "raised"
    /\ UNCHANGED <<site, workers, taskqueue, running, dfs, completed, fetches,
                   persisted, stdout, yearVars, linkVars, nameVars, diffVars, scrapeVars, limitVars, rowVars, noteVars, auxVars>>

\* scrape, lines 251-316 with no rank workbook on disk: the Dataset is
\* written as the first sheet.
Persist ==
    /\ pc = "grabbed"
    /\ persisted' = rank_df.val
    /\ pc' = "saved"
    /\ UNCHANGED <<site, workers, taskqueue, running, dfs, completed, fetches,
                   rank_df, stdout, yearVars, linkVars, nameVars, diffVars, scrapeVars, limitVars, rowVars, noteVars, auxVars>>

\* scrape, lines 184-190: the exception of grab is logged and raised again.
Abort ==
    /\ pc = "raised"
    /\ pc' = "failed"
    /\ UNCHANGED <<site, workers, taskqueue, running, dfs, completed, fetches,
                   rank_df, persisted, stdout, yearVars, linkVars, nameVars, diffVars, scrapeVars, limitVars, rowVars, noteVars, auxVars>>

NextGrab ==
    \/ \E w \in 1..MaxWorkers : w \in DOMAIN running /\ TakeChunk(w)
    \/ \E w \in 1..MaxWorkers : w \in DOMAIN running /\ ScanPage(w)
    \/ AssembleDataset
    \/ Persist
    \/ Abort

SpecGrab == InitGrab /\ [][NextGrab]_vars

GrabReturned == pc \in {"grabbed", "saved"}

GrabEnded == pc \in {"grabbed", "saved", "raised", "failed"}

FailedPages == {n \in DOMAIN dfs : dfs[n].kind = "status"}

\* The rows the page fetches delivered, in page order.
Delivered == Concat(SelectSeq(StarmapResults(dfs, completed), IsDataFrame))

IsAnomaly(row) == row.rank = Str(StarText)

AnomaliesBefore(rows, i) == Cardinality({j \in 1..(i - 1) : IsAnomaly(rows[j])})

\* The rank the anomaly rule of section 4.6 gives row i: a numbered row
\* keeps its scraped rank plus one per anomaly row before it, an anomaly row
\* gets the resolved rank of the row before it plus one.
RECURSIVE RuleRank(_, _)
RuleRank(rows, i) ==
    IF ~IsAnomaly(rows[i]) THEN rows[i].rank.num + AnomaliesBefore(rows, i)
    ELSE IF i = 1 THEN 1
    ELSE RuleRank(rows, i - 1) + 1

PositionOf(rows, candidate) == CHOOSE i \in 1..Len(rows) : rows[i].candidate = candidate

RanksOf(d) == [i \in 1..Len(d.rows) |-> d.rows[i].rank]

FlagsOf(d) == [i \in 1..Len(d.rows) |-> d.rows[i].Exception]

\* C2: when a page fetch of the run returned a non-success status, the
\* pipeline fails: grab returns no Dataset and scrape persists nothing.
C2_FailedPageFailsRun ==
    (GrabEnded /\ FailedPages # {}) =>
        /\ rank_df.err # NoError
        /\ persisted = Idle
        /\ pc \notin {"grabbed", "saved"}

C2_Witness ==
    /\ pc = "saved"
    /\ site.marks = <<"n", "*", "n">>
    /\ dfs[2] = StatusCode(500)
    /\ Len(persisted.rows) = 2

\* C3: a row before any anomaly keeps its scraped rank, an anomaly row gets
\* the resolved rank of the row before it plus one, the shift carries on to
\* the rows after it (cells 10, star, 11 resolve to 10, 11, 12), and exactly
\* the anomaly rows are flagged in the Exception column.
C3_AnomalyRanksResolved ==
    GrabReturned =>
        \A i \in 1..Len(rank_df.val.rows) :
            LET row == rank_df.val.rows[i]
                k == PositionOf(Delivered, row.candidate)
            IN  /\ row.rank = RuleRank(Delivered, k)
                /\ (row.Exception = "True") <=> IsAnomaly(Delivered[k])

C3_Witness ==
    /\ pc = "grabbed"
    /\ site.first = 10
    /\ site.marks = <<"n", "*", "n">>
    /\ FailedPages = {}
    /\ RanksOf(rank_df.val) = <<11, 11, 12>>
    /\ FlagsOf(rank_df.val) = <<Absent, "True", Absent>>

\* C5: in every Dataset grab returns, every rank is a positive integer and
\* no two records have the same rank.
C5_RanksPositiveAndUnique ==
    GrabReturned =>
        /\ \A i \in 1..Len(rank_df.val.rows) : rank_df.val.rows[i].rank >= 1
        /\ \A i, j \in 1..Len(rank_df.val.rows) :
               i # j => rank_df.val.rows[i].rank # rank_df.val.rows[j].rank

C5_Witness ==
    /\ pc = "grabbed"
    /\ site.marks = <<"n", "n", "*", "n", "*">>
    /\ FailedPages = {}
    /\ \E i \in 1..4 : rank_df.val.rows[i].rank = rank_df.val.rows[i + 1].rank

\* What one worker fetching page 1, 2, ... in turn hands to the Assembler.
SequentialResults == [n \in 1..UpperLimit(site) |-> scan_page(site, n)]

\* C6: the Dataset is sorted ascending by resolved rank and indexed 0..n-1,
\* and it is the outcome the page contents alone decide, whatever the number
\* of workers and the order in which the fetches completed.
C6_SortedAndOrderIndependent ==
    GrabEnded =>
        /\ rank_df = grab(year, SequentialResults, [n \in 1..UpperLimit(site) |-> n])
        /\ rank_df.err = NoError =>
               /\ \A i \in 1..Len(rank_df.val.rows) : rank_df.val.rows[i].index = i - 1
               /\ \A i \in 1..(Len(rank_df.val.rows) - 1) :
                      rank_df.val.rows[i].rank <= rank_df.val.rows[i + 1].rank

C6_Witness ==
    /\ pc = "grabbed"
    /\ workers = 2
    /\ Len(completed) = 3
    /\ completed[1] > completed[2]
    /\ Len(rank_df.val.rows) >= 4
    /\ rank_df.val.columns[2] = "Exception"

Occurrences(n) ==
    Cardinality({c \in 1..Len(taskqueue) : \E i \in 1..Len(taskqueue[c]) : taskqueue[c][i] = n})
    + Cardinality({w \in DOMAIN running : \E i \in 1..Len(running[w]) : running[w][i] = n})
    + Cardinality({i \in 1..Len(completed) : completed[i] = n})

C15_ColumnsFixedByYear ==
    GrabReturned => rank_df.val.columns = cols(year, TRUE)

C15_Witness ==
    /\ pc = "grabbed"
    /\ parse_year_int(year).val = 2019
    /\ Len(rank_df.val.columns) = 16
    /\ \E n \in DOMAIN dfs : dfs[n].kind = "None"
    /\ \E i \in 1..Len(Delivered) : Delivered[i].rank.kind = "num"

EmptyPages == {n \in DOMAIN dfs : dfs[n].kind = "None"}

\* C19: a page of fewer than two table rows is no error and adds no record:
\* when every other page was fetched and parsed, the run ends as it would
\* on the records of the non-empty pages alone, and with a Dataset of no
\* records when every page is empty.
C19_EmptyPagesAreNoError ==
    (GrabEnded /\ EmptyPages # {} /\ \A n \in DOMAIN dfs : dfs[n].kind \in {"None", "DataFrame"}) =>
        IF Delivered = <<>>
        THEN rank_df.err = NoError /\ rank_df.val.rows = <<>>
        ELSE rank_df = Assemble(year, <<DataFrame(Delivered)>>)

C19_Witness ==
    /\ pc = "failed"
    /\ Len(site.marks) = 3
    /\ \A n \in DOMAIN dfs : dfs[n].kind = "None"
    /\ rank_df.err = "ValueError"

\* The part of C19 the code keeps: empty pages beside a page with records
\* change nothing.
C19_EmptyPagesBesideRecords ==
    (GrabEnded /\ EmptyPages # {} /\ Delivered # <<>>
     /\ \A n \in DOMAIN dfs : dfs[n].kind \in {"None", "DataFrame"}) =>
        rank_df = Assemble(year, <<DataFrame(Delivered)>>)

ParseFailures == {n \in DOMAIN dfs : dfs[n].kind = "exception"}

MEDAL == "<medal>"

\* emoji.emoji_count(text) > 0
HasEmoji(text) == \E i \in 1..Len(text) : text[i] = MEDAL

LowerCase == <<"a", "e", "n", "o", "r", "s", "t">>

UpperCase == <<"A", "E", "N", "O", "R", "S", "T">>

\* str.upper()
upper(text) ==
    [i \in 1..Len(text) |->
        IF \E j \in 1..Len(LowerCase) : LowerCase[j] = text[i]
        THEN UpperCase[CHOOSE j \in 1..Len(LowerCase) : LowerCase[j] = text[i]]
        ELSE text[i]]

\* The characters of the column names parse_data cuts and builds.
Chars(name) ==
    CASE name = "Note" -> <<"N", "o", "t", "e">>
      [] name = "Note_sessione_straordinaria" -> <<"N", "o", "t", "e", "_", "s", "e", "s", "s", "i", "o", "n", "e", "_", "s", "t", "r", "a", "o", "r", "d", "i", "n", "a", "r", "i", "a">>
      [] name = "Note_immatricolazione" -> <<"N", "o", "t", "e", "_", "i", "m", "m", "a", "t", "r", "i", "c", "o", "l", "a", "z", "i", "o", "n", "e">>
      [] name = "Contratto" -> <<"C", "o", "n", "t", "r", "a", "t", "t", "o">>
      [] name = "Contratto_Note" -> <<"C", "o", "n", "t", "r", "a", "t", "t", "o", "_", "N", "o", "t", "e">>
      [] name = "Contratto_sessione_straordinaria" -> <<"C", "o", "n", "t", "r", "a", "t", "t", "o", "_", "s", "e", "s", "s", "i", "o", "n", "e", "_", "s", "t", "r", "a", "o", "r", "d", "i", "n", "a", "r", "i", "a">>
      [] name = "Contratto_sessione_immatricolazione" -> <<"C", "o", "n", "t", "r", "a", "t", "t", "o", "_", "s", "e", "s", "s", "i", "o", "n", "e", "_", "i", "m", "m", "a", "t", "r", "i", "c", "o", "l", "a", "z", "i", "o", "n", "e">>
      [] name = "Contratto_immatricolazione" -> <<"C", "o", "n", "t", "r", "a", "t", "t", "o", "_", "i", "m", "m", "a", "t", "r", "i", "c", "o", "l", "a", "z", "i", "o", "n", "e">>

ContractKeys ==
    {"Contratto", "Contratto_Note", "Contratto_sessione_straordinaria",
     "Contratto_sessione_immatricolazione", "Contratto_immatricolazione"}

\* f"Contratto_{c.split('_')[0]}"
ContractKey(c) ==
    LET type_of_c == SplitOn(Chars(c), "_")[1]
    IN  CHOOSE k \in ContractKeys : Chars(k) = <<"C", "o", "n", "t", "r", "a", "t", "t", "o", "_">> \o type_of_c

\* parse_data, lines 211-233: a note cell.
parse_note(cell, c) ==
    IF ~cell.span.found THEN Ok(c :> Str(strip(cell.text)))
    ELSE LET children == cell.span.children
         IN  IF children = <<>> THEN Raise("IndexError")
             ELSE IF Len(children) = 1
             THEN Ok((c :> Str(strip(children[1].text)))
                     @@ (ContractKey(c) :> Str(<<"S", "T", "A", "T">>)))
             ELSE LET contract == upper(strip(children[2].text))
                      title == children[2].title
                  IN  Ok((c :> Str(strip(children[1].text)))
                         @@ (ContractKey(c) :>
                                IF contract = <<>> \/ Len(contract) = 1 \/ HasEmoji(contract)
                                THEN (IF title = <<>> THEN NaN ELSE Str(strip(title)))
                                ELSE Str(contract)))

\* parse_data, the body of the loop for column c at index i (from 0): the
\* entries it adds to the row dict, or the exception it raises.
parse_column(cells, c, i) ==
    IF i >= 6 /\ Len(cells) < 7 THEN Ok(c :> Str(<<>>))
    ELSE IF Len(cells) <= i THEN Raise("IndexError")
    ELSE LET cell == cells[i + 1]
         IN  IF i < 5
             THEN IF parse_number(cell.text).kind = "num" \/ i # 1
                  THEN Ok(c :> parse_number(cell.text))
                  ELSE IF Len(cell.children) < 3 THEN Raise("IndexError")
                  ELSE Ok(c :> Str(strip(cell.children[3])))
             ELSE IF i = 5
             THEN IF ~cell.span.found THEN Raise("AttributeError")
                  ELSE Ok(c :> Str(IF cell.span.title # <<>> THEN cell.span.title
                                   ELSE strip(cell.span.text)))
             ELSE parse_note(cell, c)

RECURSIVE parse_columns(_, _, _, _)
parse_columns(cells, header, i, dict) ==
    IF i >= Len(header) THEN Ok(dict)
    ELSE LET entries == parse_column(cells, header[i + 1], i)
         IN  IF entries.err # NoError THEN entries
             ELSE parse_columns(cells, header, i + 1, entries.val @@ dict)

\* parse_data(tds, year)
parse_data(cells, y) ==
    LET header == get_columns(y)
    IN  IF header.err # NoError THEN header
        ELSE parse_columns(cells, header.val, 0, <<>>)

\* grab, lines 336-366: the columns of the final Dataset that grab takes
\* from the parsed rows as they are.
CarriedColumns(y) ==
    IF parse_year_int(y).val <= 2018
    THEN <<"Tot", "Prova", "Titoli", "Stato", "Contratto", "Note">>
    ELSE <<"Tot", "Prova", "Titoli", "Stato", "Contratto_sessione_straordinaria",
           "Contratto_sessione_immatricolazione", "Note_sessione_straordinaria",
           "Note_immatricolazione">>

\* grab, lines 396-404: a column the frame does not have is added as NaN, the
\* columns of cols are kept, and NaN and "" both become None.
CarriedRecord(dict, y) ==
    [j \in 1..Len(CarriedColumns(y)) |->
        LET c == CarriedColumns(y)[j]
        IN  IF c \notin DOMAIN dict \/ dict[c] = Str(<<>>) THEN NaN ELSE dict[c]]

NoSpan == [found |-> FALSE, title |-> <<>>, text |-> <<>>, children |-> <<>>]

Span(title, text, children) ==
    [found |-> TRUE, title |-> title, text |-> text, children |-> children]

Node(text, title) == [text |-> text, title |-> title]

Td(text) == [text |-> text, children |-> <<text>>, span |-> NoSpan]

NameCell ==
    [text |-> <<" ", "B", "o", " ", "(", "1", "/", "2", "/", "1", "9", "9", "0", ")">>, children |-> <<<<>>, <<>>, <<" ", "B", "o", " ", "(", "1", "/", "2", "/", "1", "9", "9", "0", ")">>>>, span |-> NoSpan]

StatusCells ==
    {[text |-> <<" ", "o", "k", " ">>, children |-> <<>>, span |-> Span(<<"A", "s", "s", "e", "g", "n", "a", "t", "o">>, <<" ", "o", "k", " ">>, <<>>)],
     [text |-> <<" ", "o", "k", " ">>, children |-> <<>>, span |-> Span(<<>>, <<" ", "o", "k", " ">>, <<>>)]}

NoteText == <<" ", "P", "e", "d", "i", "a", "t", "r", "i", "a", ",", " ", "R", "o", "m", "a", " ">>

\* A note cell: plain text; a marker with the note alone; a marker with a
\* second child that reads "ssn", that is a pictograph with a tooltip, or
\* that is one letter without a tooltip.
NoteCells ==
    {[text |-> NoteText, children |-> <<NoteText>>, span |-> NoSpan]}
    \cup {[text |-> NoteText, children |-> <<>>, span |-> Span(<<>>, NoteText, kids)] :
            kids \in {<<Node(NoteText, <<>>)>>,
                      <<Node(NoteText, <<>>), Node(<<" ", "s", "s", "n", " ">>, <<>>)>>,
                      <<Node(NoteText, <<>>), Node(<<MEDAL>>, <<" ", "R", "e", "g", "i", "o", "n", "e", " ">>)>>,
                      <<Node(NoteText, <<>>), Node(<<"r">>, <<>>)>>}}

FullRows ==
    {<<Td(<<"7">>), NameCell, Td(<<"9", "0">>), Td(<<"8", "0">>), Td(<<"1", "0">>), st, n1, n2>> :
        st \in StatusCells, n1 \in NoteCells, n2 \in NoteCells}

\* The rows of a page: every length from one cell to the full row.
RawRows == UNION {{SubSeq(full, 1, k) : k \in 1..Len(full)} : full \in FullRows}

InitRow ==
    /\ pc = "input"
    /\ year \in RankingYears
    /\ columns = Idle
    /\ tds \in RawRows
    /\ parsed_row = Idle
    /\ record = Idle
    /\ LinkIdle /\ NameIdle /\ DiffIdle /\ GrabIdle /\ ScrapeIdle
    /\ LimitIdle /\ NoteIdle /\ AuxIdle

\* scan_page, line 277: rows.append(parse_data(tds, year))
ParseRow ==
    /\ pc = "input"
    /\ tds \in RawRows
    /\ parsed_row' = parse_data(tds, year)
    /\ pc' = IF parsed_row'.err = NoError THEN "parsed" ELSE "raised"
    /\ UNCHANGED <<tds, record, yearVars, linkVars, nameVars, diffVars, grabVars,
                   scrapeVars, limitVars, noteVars, auxVars>>

\* grab, lines 394-404: the row in the final Dataset.
SelectColumns ==
    /\ pc = "parsed"
    /\ record' = CarriedRecord(parsed_row.val, year)
    /\ pc' = "done"
    /\ UNCHANGED <<tds, parsed_row, yearVars, linkVars, nameVars, diffVars, grabVars,
                   scrapeVars, limitVars, noteVars, auxVars>>

NextRow == ParseRow \/ SelectColumns

SpecRow == InitRow /\ [][NextRow]_vars

Schema == get_columns(year).val

RowParsed == pc \in {"parsed", "raised", "done"}

\* C13: a row with fewer cells than the schema has columns (from one cell to
\* one less than the schema, in the 7- and in the 8-column schema) is parsed
\* without error, and every column without a cell is the empty string.
C13_ShortRowYieldsEmptyStrings ==
    (RowParsed /\ Len(tds) < Len(Schema)) =>
        /\ parsed_row.err = NoError
        /\ \A i \in (Len(tds) + 1)..Len(Schema) : parsed_row.val[Schema[i]] = Str(<<>>)

C13_Witness ==
    /\ pc = "raised"
    /\ Len(Schema) = 8
    /\ Len(tds) = 7
    /\ parsed_row.err = "IndexError"

\* The part of C13 the code keeps: a row of six cells is parsed without
\* error and its note columns are empty strings.
C13_SixCellsYieldEmptyNotes ==
    (RowParsed /\ Len(tds) = 6) =>
        /\ parsed_row.err = NoError
        /\ \A i \in 7..Len(Schema) : parsed_row.val[Schema[i]] = Str(<<>>)

NoteColumns == {c \in {Schema[i] : i \in 1..Len(Schema)} :
                    c \in {"Note", "Note_sessione_straordinaria", "Note_immatricolazione"}}

CellOf(c) == tds[CHOOSE i \in 1..Len(Schema) : Schema[i] = c]

HasMarker(c) ==
    /\ \E i \in 1..Len(tds) : Schema[i] = c
    /\ CellOf(c).span.found

\* The contract column of the final Dataset that belongs to a note column.
ContractColumnOf(c) ==
    CASE c = "Note" -> "Contratto"
      [] c = "Note_sessione_straordinaria" -> "Contratto_sessione_straordinaria"
      [] c = "Note_immatricolazione" -> "Contratto_sessione_immatricolazione"

\* The contract type of a marker element: the sentinel when it has one
\* child, else the second child's text in upper case, or that child's
\* tooltip when the text is empty, one character or holds a pictograph.
ContractTypeOf(span) ==
    IF Len(span.children) = 1 THEN Str(<<"S", "T", "A", "T">>)
    ELSE LET shown == upper(strip(span.children[2].text))
         IN  IF shown = <<>> \/ Len(shown) = 1 \/ HasEmoji(shown)
             THEN (IF span.children[2].title = <<>> THEN NaN
                   ELSE Str(strip(span.children[2].title)))
             ELSE Str(shown)

ValueOf(c) == record[CHOOSE j \in 1..Len(CarriedColumns(year)) : CarriedColumns(year)[j] = c]

\* C20: for every note column whose cell has a marker element, the contract
\* type derived from that marker is the value of that note column's contract
\* column in the final Dataset (Contratto up to 2018; the contract columns
\* of the extraordinary and of the enrollment session after 2018), so the
\* two note columns of one row keep each its own contract type.
C20_ContractTypeInItsColumn ==
    pc = "done" =>
        \A c \in NoteColumns :
            HasMarker(c) => ValueOf(ContractColumnOf(c)) = ContractTypeOf(CellOf(c).span)

C20_Witness ==
    /\ pc = "done"
    /\ Len(Schema) = 8
    /\ Len(tds) = 8
    /\ Len(tds[7].span.children) = 2
    /\ Len(tds[8].span.children) = 2
    /\ ContractTypeOf(tds[7].span) = Str(<<"S", "S", "N">>)
    /\ ContractTypeOf(tds[8].span) = Str(<<"R", "e", "g", "i", "o", "n", "e">>)
    /\ parsed_row.val["Contratto_Note"] = Str(<<"R", "e", "g", "i", "o", "n", "e">>)
    /\ ValueOf("Contratto_sessione_straordinaria") = NaN
    /\ ValueOf("Contratto_sessione_immatricolazione") = NaN

\* The part of C20 the code keeps: parse_data derives the contract type of
\* the last note cell that has a marker, under the key Contratto_Note.
C20_LastMarkerUnderContrattoNote ==
    pc = "done" =>
        \A c \in NoteColumns :
            (HasMarker(c) /\ \A d \in NoteColumns :
                 (HasMarker(d) /\ d # c) => c = "Note_immatricolazione")
            => parsed_row.val["Contratto_Note"] = ContractTypeOf(CellOf(c).span)

(***************************************************************************)
(* grab, lines 329-335 and 367-393: the Specializzazione and Sede columns  *)
(* derived from a note column of the frame                                 *)
(***************************************************************************)
\* str.replace(old, new): every occurrence, left to right, not overlapping.
RECURSIVE ReplaceAll(_, _, _)
ReplaceAll(s, old, new) ==
    IF Len(s) < Len(old) THEN s
    ELSE IF SubSeq(s, 1, Len(old)) = old
         THEN new \o ReplaceAll(SubSeq(s, Len(old) + 1, Len(s)), old, new)
         ELSE <<s[1]>> \o ReplaceAll(Tail(s), old, new)

\* x.rsplit(c, 1): cut at the last c, one piece when there is none.
rsplit_once(x, c) ==
    IF Positions(x, c) = {} THEN <<x>>
    ELSE <<SubSeq(x, 1, Max(Positions(x, c)) - 1),
           SubSeq(x, Max(Positions(x, c)) + 1, Len(x))>>

\* x.split(c, 1): cut at the first c.
split_once(x, c) ==
    IF Positions(x, c) = {} THEN <<x>>
    ELSE <<SubSeq(x, 1, Min(Positions(x, c)) - 1),
           SubSeq(x, Min(Positions(x, c)) + 1, Len(x))>>

EmergenzaUrgenza == <<"M", "e", "d", "i", "c", "i", "n", "a", " ", "d", "'", "e", "m", "e", "r", "g", "e", "n", "z", "a", "-", "u", "r", "g", "e", "n", "z", "a">>

MaxilloFacciale == <<"C", "h", "i", "r", "u", "r", "g", "i", "a", " ", "m", "a", "x", "i", "l", "l", "o", "-", "f", "a", "c", "c", "i", "a", "l", "e">>

\* lines 384-387: the two names with "$" in place of their "-".
Protect(text) ==
    ReplaceAll(ReplaceAll(text, EmergenzaUrgenza, <<"M", "e", "d", "i", "c", "i", "n", "a", " ", "d", "'", "e", "m", "e", "r", "g", "e", "n", "z", "a", "$", "u", "r", "g", "e", "n", "z", "a">>),
               MaxilloFacciale, <<"C", "h", "i", "r", "u", "r", "g", "i", "a", " ", "m", "a", "x", "i", "l", "l", "o", "$", "f", "a", "c", "c", "i", "a", "l", "e">>)

\* The pieces of one note: rsplit(",", n=1) for Note and for the note of
\* the extraordinary session, split("-", n=1) of the protected text for the
\* enrollment note.
Pieces(column, text) ==
    IF column = "Note_immatricolazione" THEN split_once(Protect(text), "-")
    ELSE rsplit_once(text, ",")

\* The first piece: "$" put back to "-" for the enrollment note, stripped.
Specializzazione(column, text) ==
    IF column = "Note_immatricolazione"
    THEN strip(ReplaceAll(Pieces(column, text)[1], <<"$">>, <<"-">>))
    ELSE strip(Pieces(column, text)[1])

\* The second piece, stripped; None for a note that was not cut.
Sede(column, text) ==
    IF Len(Pieces(column, text)) < 2 THEN NaN
    ELSE Str(strip(Pieces(column, text)[2]))

\* expand=True gives as many columns as the longest row has pieces; the
\* assignment to the two columns raises ValueError when that is one.
DeriveColumns(column, texts) ==
    IF \A i \in 1..Len(texts) : Len(Pieces(column, texts[i])) < 2
    THEN Raise("ValueError")
    ELSE Ok([i \in 1..Len(texts) |->
                [Specializzazione |-> Str(Specializzazione(column, texts[i])),
                 Sede |-> Sede(column, texts[i])]])

MaxNotes == 2

NoteValues ==
    { <<"P", "e", "d", "i", "a", "t", "r", "i", "a", ",", " ", "R", "o", "m", "a">>,
      <<"I", "g", "i", "e", "n", "e", ",", " ", "A", ",", " ", "B">>,
      <<>>,
      <<"P", "e", "d", "i", "a", "t", "r", "i", "a", " ", "-", " ", "R", "o", "m", "a">>,
      <<"M", "e", "d", "i", "c", "i", "n", "a", " ", "d", "'", "e", "m", "e", "r", "g", "e", "n", "z", "a", "-", "u", "r", "g", "e", "n", "z", "a", " ", "-", " ", "P", "i", "s", "a">>,
      <<"C", "h", "i", "r", "u", "r", "g", "i", "a", " ", "m", "a", "x", "i", "l", "l", "o", "-", "f", "a", "c", "c", "i", "a", "l", "e", "-", "B", "a", "r", "i", "-", "S", "u", "d">>,
      <<"A", "$", "B", " ", "-", " ", "R", "o", "m", "a">>,
      <<"I", "g", "i", "e", "n", "e", " ", "-", " ", "C", "h", "i", "r", "u", "r", "g", "i", "a", " ", "m", "a", "x", "i", "l", "l", "o", "-", "f", "a", "c", "c", "i", "a", "l", "e">>,
      <<"N", "e", "s", "s", "u", "n", "a">> }

NoteColumnNames == {"Note", "Note_sessione_straordinaria", "Note_immatricolazione"}

NoteFrames ==
    {[column |-> c, texts |-> t] :
        c \in NoteColumnNames, t \in SeqsUpTo(NoteValues, MaxNotes) \ {<<>>}}

InitNote ==
    /\ pc = "input"
    /\ notes \in NoteFrames
    /\ derived = Idle
    /\ YearIdle /\ LinkIdle /\ NameIdle /\ DiffIdle /\ GrabIdle /\ ScrapeIdle
    /\ LimitIdle /\ RowIdle /\ AuxIdle

\* grab derives the two columns of the frame, or raises.
SplitNotes ==
    /\ pc = "input"
    /\ notes \in NoteFrames
    /\ derived' = DeriveColumns(notes.column, notes.texts)
    /\ pc' = "done"
    /\ UNCHANGED <<notes, yearVars, linkVars, nameVars, diffVars, grabVars,
                   scrapeVars, limitVars, rowVars, auxVars>>

NextNote == SplitNotes

SpecNote == InitNote /\ [][NextNote]_vars

ProtectedNames == {EmergenzaUrgenza, MaxilloFacciale}

\* Position p of the text lies inside an occurrence of a protected name.
InsideProtected(text, p) ==
    \E name \in ProtectedNames : \E a \in 1..Len(text) :
        /\ a <= p /\ p < a + Len(name)
        /\ a + Len(name) - 1 <= Len(text)
        /\ SubSeq(text, a, a + Len(name) - 1) = name

\* Where the separator of a note is: the last comma, or the first hyphen
\* that is not inside a protected name (0 when there is none).
SeparatorOf(column, text) ==
    LET at == IF column = "Note_immatricolazione"
              THEN {p \in Positions(text, "-") : ~InsideProtected(text, p)}
              ELSE Positions(text, ",")
    IN  IF at = {} THEN 0
        ELSE IF column = "Note_immatricolazione" THEN Min(at) ELSE Max(at)

SplitAsClaimed(column, text, out) ==
    LET p == SeparatorOf(column, text)
    IN  p # 0 =>
            /\ out.Specializzazione = Str(strip(SubSeq(text, 1, p - 1)))
            /\ out.Sede = Str(strip(SubSeq(text, p + 1, Len(text))))

\* C14: a pre-2019 note is cut at its last comma and a post-2019 enrollment
\* note at its first hyphen outside the protected names; the specialization
\* is the original text before the separator, no character of it altered
\* (blanks around it trimmed), and the site is the text after it.
C14_SplitKeepsOriginalText ==
    (pc = "done" /\ derived.err = NoError /\ notes.column # "Note_sessione_straordinaria") =>
        \A i \in 1..Len(notes.texts) :
            SplitAsClaimed(notes.column, notes.texts[i], derived.val[i])

C14_Witness ==
    /\ pc = "done"
    /\ notes.column = "Note_immatricolazione"
    /\ notes.texts = <<<<"A", "$", "B", " ", "-", " ", "R", "o", "m", "a">>>>
    /\ derived.err = NoError
    /\ derived.val[1].Specializzazione = Str(<<"A", "-", "B">>)

\* The part of C14 the code keeps: the claim holds of every note that has
\* no "$" of its own and no protected name after its separator.
C14_HoldsWithoutPlaceholder ==
    (pc = "done" /\ derived.err = NoError /\ notes.column # "Note_sessione_straordinaria") =>
        \A i \in 1..Len(notes.texts) :
            (/\ Positions(notes.texts[i], "$") = {}
             /\ Protect(notes.texts[i]) = notes.texts[i]
                    \/ \A p \in Positions(notes.texts[i], "-") :
                           InsideProtected(notes.texts[i], p) =>
                               p < SeparatorOf(notes.column, notes.texts[i]))
            => SplitAsClaimed(notes.column, notes.texts[i], derived.val[i])

(***************************************************************************)
(* scrape: persistence of the rank Dataset (lines 251-316)                 *)
(*                                                                         *)
(* The rank workbook is a file that may be missing, unreadable or a list   *)
(* of named sheets. A sheet label is text; sorted() orders labels          *)
(* character by character.                                                 *)
(***************************************************************************)
NoFile == [exists |-> FALSE, corrupted |-> FALSE, sheets |-> <<>>]

CorruptedFile == [exists |-> TRUE, corrupted |-> TRUE, sheets |-> <<>>]

\* An empty cell of a sheet.
Blank == ""

\* df.to_excel(writer, index=False, sheet_name=...): the header and the
\* cells, the row index left out, an absent value written as an empty cell.
to_excel(d, sheet_name) ==
    [name |-> sheet_name,
     columns |-> d.columns,
     rows |-> [i \in 1..Len(d.rows) |->
                  [j \in 1..Len(d.columns) |->
                      IF notnull(d.rows[i][j]) THEN d.rows[i][j] ELSE Blank]]]

\* pd.read_excel(path, sheet_name=...): an empty cell is read as NaN.
read_excel(sheet) ==
    [columns |-> sheet.columns,
     rows |-> [i \in 1..Len(sheet.rows) |->
                  [j \in 1..Len(sheet.columns) |->
                      IF sheet.rows[i][j] = Blank THEN Absent ELSE sheet.rows[i][j]]]]

\* Python's order on text: the first differing character decides, a proper
\* prefix comes first.
RECURSIVE TextLess(_, _)
TextLess(a, b) ==
    IF b = <<>> THEN FALSE
    ELSE IF a = <<>> THEN TRUE
    ELSE IF a[1] # b[1] THEN DigitValue(a[1]) < DigitValue(b[1])
    ELSE TextLess(Tail(a), Tail(b))

\* sorted(get_worksheets_names(path), reverse=True)[0], as the sheet.
LastSheet(book) ==
    book.sheets[CHOOSE i \in 1..Len(book.sheets) :
        \A j \in 1..Len(book.sheets) :
            j # i => TextLess(book.sheets[j].name, book.sheets[i].name)]

\* make_backup_xlsx: nothing without a file, else a copy (of the bytes when
\* the workbook cannot be loaded).
make_backup_xlsx(book, old_backup) == IF book.exists THEN book ELSE old_backup

\* save_df: mode "w" starts a new workbook; mode "a" replaces the sheet of
\* that name in place, or adds the sheet at the end.
save_df(d, book, sheet_name, mode) ==
    IF mode = "w"
    THEN [exists |-> TRUE, corrupted |-> FALSE, sheets |-> <<to_excel(d, sheet_name)>>]
    ELSE IF \E i \in 1..Len(book.sheets) : book.sheets[i].name = sheet_name
    THEN [book EXCEPT !.sheets =
             [i \in 1..Len(book.sheets) |->
                 IF book.sheets[i].name = sheet_name THEN to_excel(d, sheet_name)
                 ELSE book.sheets[i]]]
    ELSE [book EXCEPT !.sheets = Append(@, to_excel(d, sheet_name))]

\* line 267 negated: the write happens whatever the comparison said.
WriteAlways(is_equal) == TRUE

\* line 267: if not equal
WriteNeeded(is_equal) == ~is_equal

ScrapedDatasets ==
    {[columns |-> <<"#", "Tot">>, rows |-> <<<<"a", x>>>>] : x \in CellValues}
    \cup {[columns |-> <<"#">>, rows |-> <<<<"a">>>>]}
    \cup {[columns |-> <<"Tot", "#">>, rows |-> <<<<"a", "a">>>>]}

\* No sheet has been saved yet.
NoLabel == <<>>

\* The label of the sheet saved most recently, after a run that logged line.
LastWritten(c, line, before) == IF line = "Saved" THEN c.sheet_name ELSE before

SheetNames == {<<"2">>, <<"1", "0">>}

Calls ==
    [rank_df : ScrapedDatasets, save : BOOLEAN, skip_if_equal_to_last : BOOLEAN,
     backup : BOOLEAN, sheet_name : SheetNames]

InitScrape ==
    /\ pc = "idle"
    /\ workbook \in {NoFile, CorruptedFile}
    /\ backup_file = NoFile
    /\ call = Idle
    /\ log = "none"
    /\ last_written = NoLabel
    /\ YearIdle /\ LinkIdle /\ NameIdle /\ DiffIdle /\ GrabIdle /\ LimitIdle /\ RowIdle /\ NoteIdle /\ AuxIdle

\* scrape is called and grab has returned the Dataset (lines 141-200).
ScrapeCalled ==
    /\ pc = "idle"
    /\ call' \in Calls
    /\ pc' = "called"
    /\ UNCHANGED <<workbook, backup_file, log, last_written, yearVars, linkVars, nameVars,
                   diffVars, grabVars, limitVars, rowVars, noteVars, auxVars>>

\* lines 251-316: the rank Dataset goes to the workbook, or not; the
\* workbook and the backup as they are left, and the line logged.
save_rank(c, book, bak) ==
    IF ~c.save
    THEN [workbook |-> book, backup_file |-> bak, log |-> "not saving"]
    ELSE IF c.skip_if_equal_to_last /\ book.exists
    THEN IF book.corrupted
         THEN [workbook |-> save_df(c.rank_df, book, c.sheet_name, "w"),
               backup_file |-> IF c.backup THEN make_backup_xlsx(book, bak) ELSE bak,
               log |-> "Saved"]
         ELSE IF WriteNeeded(dfs_are_equal(c.rank_df, read_excel(LastSheet(book))))
         THEN [workbook |-> save_df(c.rank_df, book, c.sheet_name, "a"),
               backup_file |-> IF c.backup THEN make_backup_xlsx(book, bak) ELSE bak,
               log |-> "Saved"]
         ELSE [workbook |-> book, backup_file |-> bak, log |-> "Skipped"]
    ELSE [workbook |-> save_df(c.rank_df, book, c.sheet_name, "w"),
          backup_file |-> IF c.backup THEN make_backup_xlsx(book, bak) ELSE bak,
          log |-> "Saved"]

SaveRank ==
    /\ pc = "called"
    /\ pc' = "idle"
    /\ call' = Idle
    /\ workbook' = save_rank(call, workbook, backup_file).workbook
    /\ backup_file' = save_rank(call, workbook, backup_file).backup_file
    /\ log' = save_rank(call, workbook, backup_file).log
    /\ last_written' = LastWritten(call, save_rank(call, workbook, backup_file).log, last_written)
    /\ UNCHANGED <<yearVars, linkVars, nameVars, diffVars, grabVars, limitVars, rowVars, noteVars, auxVars>>

NextScrape == ScrapeCalled \/ SaveRank

SpecScrape == InitScrape /\ [][NextScrape]_vars

\* The sheet with the greatest label, read back as a dataset.
LastSnapshot == read_excel(LastSheet(workbook))

GatedCall ==
    /\ pc = "called"
    /\ call.save
    /\ call.skip_if_equal_to_last
    /\ workbook.exists
    /\ ~workbook.corrupted

SheetOf(book, sheet_name) ==
    book.sheets[CHOOSE i \in 1..Len(book.sheets) : book.sheets[i].name = sheet_name]

HasSheet(book, sheet_name) ==
    \E i \in 1..Len(book.sheets) : book.sheets[i].name = sheet_name

\* C4: with saving and skip-if-equal on and a readable workbook on disk,
\* scrape writes the new snapshot if and only if isUnchanged(new Dataset,
\* last snapshot) is false; when it is true the workbook and its backup are
\* left as they were.
C4_WriteIffChanged ==
    [][GatedCall =>
          IF dfs_are_equal(call.rank_df, LastSnapshot)
          THEN /\ log' = "Skipped"
               /\ workbook' = workbook
               /\ backup_file' = backup_file
          ELSE /\ log' = "Saved"
               /\ HasSheet(workbook', call.sheet_name)
               /\ read_excel(SheetOf(workbook', call.sheet_name)) = call.rank_df
               /\ call.backup => backup_file' = workbook]_vars

\* Both outcomes of the gate have happened: a skipped run, after it a run
\* that differs and is about to be written next to two kept sheets.
C4_Witness ==
    /\ GatedCall
    /\ log = "Skipped"
    /\ Len(workbook.sheets) = 2
    /\ ~dfs_are_equal(call.rank_df, LastSnapshot)

ComparisonRaises == Comparison(call.rank_df, LastSnapshot).err # NoError

\* C16: an exception raised while the new dataset is compared with the last
\* snapshot does not leave dfs_are_equal: the call ends normally, the
\* result is "changed", and the write is performed instead of skipped.
C16_ComparisonErrorMeansWrite ==
    [][(GatedCall /\ ComparisonRaises) =>
          /\ ~dfs_are_equal(call.rank_df, LastSnapshot)
          /\ pc' = "idle"
          /\ log' = "Saved"
          /\ HasSheet(workbook', call.sheet_name)
          /\ read_excel(SheetOf(workbook', call.sheet_name)) = call.rank_df]_vars

\* Two sheets of the same columns in a different order: the second was
\* written by a gated call whose comparison raised.
C16_Witness ==
    /\ pc = "idle"
    /\ log = "Saved"
    /\ workbook.exists /\ ~workbook.corrupted
    /\ Len(workbook.sheets) = 2
    /\ workbook.sheets[1].columns # workbook.sheets[2].columns
    /\ ColumnSet(workbook.sheets[1]) = ColumnSet(workbook.sheets[2])

ReadableWorkbook == workbook.exists /\ ~workbook.corrupted

KeepsOtherSheets ==
    \A i \in 1..Len(workbook.sheets) :
        workbook.sheets[i].name # call.sheet_name =>
            \E j \in 1..Len(workbook'.sheets) : workbook'.sheets[j] = workbook.sheets[i]

\* C21: snapshots are append-only: a run with saving enabled, whatever its
\* skip-if-equal and backup flags, against a readable workbook leaves in
\* the workbook every sheet an earlier run persisted under another label.
C21_SnapshotsAppendOnly ==
    [][(pc = "called" /\ call.save /\ ReadableWorkbook) => KeepsOtherSheets]_vars

\* A workbook of two snapshots was backed up and written anew with one.
C21_Witness ==
    /\ pc = "idle"
    /\ log = "Saved"
    /\ ReadableWorkbook
    /\ Len(workbook.sheets) = 1
    /\ Len(backup_file.sheets) = 2
    /\ \E i \in 1..2 :
           /\ backup_file.sheets[i].name # workbook.sheets[1].name
           /\ ~HasSheet(workbook, backup_file.sheets[i].name)

\* C22: in every run that compares, the snapshot the new Dataset is
\* compared with is the sheet that was saved most recently, whatever labels
\* the earlier runs gave their sheets.
C22_ComparedWithMostRecent ==
    GatedCall => LastSheet(workbook).name = last_written

\* The sheet saved last is "10", the sheet compared with is "2", and the
\* new Dataset equals the one and differs from the other.
C22_Witness ==
    /\ GatedCall
    /\ last_written = <<"1", "0">>
    /\ LastSheet(workbook).name = <<"2">>
    /\ dfs_are_equal(call.rank_df, read_excel(SheetOf(workbook, last_written)))
    /\ ~dfs_are_equal(call.rank_df, LastSnapshot)

\* The part of C22 the code keeps: the sheet compared with is the one saved
\* most recently when no sheet of the workbook has a greater label.
C22_MostRecentWhenLabelsGrow ==
    (GatedCall /\ \A i \in 1..Len(workbook.sheets) :
                     ~TextLess(last_written, workbook.sheets[i].name)) =>
        LastSheet(workbook).name = last_written

\* The part of C21 the code keeps: with skip-if-equal on, no sheet under
\* another label is lost.
C21_AppendOnlyWhenGated ==
    [][(pc = "called" /\ call.save /\ call.skip_if_equal_to_last /\ ReadableWorkbook) =>
          KeepsOtherSheets]_vars

(***************************************************************************)
(* scrape: the auxiliary computations before the rank Dataset is saved     *)
(* (lines 201-316)                                                         *)
(*                                                                         *)
(* One run of scrape after grab has returned: the minimum-score summary,   *)
(* the download of the number of contracts, then the persistence of the    *)
(* rank Dataset. log is the sequence of lines written to the log file.     *)
(***************************************************************************)
\* min_pts_df = None, number_of_contracts_df = None
None == [is_none |-> TRUE, df |-> <<>>]

Some(d) == [is_none |-> FALSE, df |-> d]

ColumnIndex(d, c) == CHOOSE j \in 1..Len(d.columns) : d.columns[j] = c

Cell(d, i, c) == d.rows[i][ColumnIndex(d, c)]

StraordinariaColumns ==
    <<"Specializzazione_sessione_straordinaria", "Sede_sessione_straordinaria",
      "Contratto_sessione_straordinaria">>

DefaultColumns == <<"Specializzazione", "Sede", "Contratto">>

\* spec_col, sede_col, contratto_col
GroupColumns(d) ==
    IF \A k \in DOMAIN StraordinariaColumns : StraordinariaColumns[k] \in ColumnSet(d)
    THEN StraordinariaColumns
    ELSE DefaultColumns

\* astype(bool): the empty text is False, NaN and every other value True.
astype_bool(c) == c # ""

\* The cells "1" and "2" are the floats parse_data made of a cell; any other
\* cell is the text it kept when float() refused it.
Floats == {"1", "2"}

FloatOf(c) == IF c = "1" THEN 1 ELSE 2

\* min and max of a group's cells, NaN skipped; Python does not order a float
\* and a text (TypeError).
Mixed(S) == (\E v \in S : v \in Floats) /\ (\E v \in S : v \notin Floats)

Largest(S) ==
    IF S = {} THEN Absent
    ELSE IF S \subseteq Floats
    THEN CHOOSE v \in S : \A w \in S : FloatOf(w) <= FloatOf(v)
    ELSE CHOOSE v \in S : TRUE

Smallest(S) ==
    IF S = {} THEN Absent
    ELSE IF S \subseteq Floats
    THEN CHOOSE v \in S : \A w \in S : FloatOf(v) <= FloatOf(w)
    ELSE CHOOSE v \in S : TRUE

\* The expression assigned to min_pts_df: the rows with a true
\* specialisation, grouped by the three columns (groupby leaves out a row
\* with NaN in a key), "#" aggregated by max and "Tot" by min. The groups are
\* kept as a set of rows.
min_pts(d) ==
    LET key == GroupColumns(d)
        selected == {i \in 1..Len(d.rows) : astype_bool(Cell(d, i, key[1]))}
        grouped == {i \in selected : \A k \in DOMAIN key : notnull(Cell(d, i, key[k]))}
        KeyOf(i) == [k \in DOMAIN key |-> Cell(d, i, key[k])]
        Values(g, c) == {Cell(d, i, c) : i \in {m \in grouped : KeyOf(m) = g}} \ {Absent}
        groups == {KeyOf(i) : i \in grouped}
    IN  IF \E c \in {key[1], key[2], key[3], "#", "Tot"} : c \notin ColumnSet(d)
        THEN Raise("KeyError")
        ELSE IF \E g \in groups : Mixed(Values(g, "#")) \/ Mixed(Values(g, "Tot"))
        THEN Raise("TypeError")
        ELSE Ok([columns |-> key \o <<"#", "Tot">>,
                 groups |-> {g \o <<Largest(Values(g, "#")), Smallest(Values(g, "Tot"))>> :
                                g \in groups}])

\* What the request for the page of the contracts gives.
ContractPages == {"table", "http_500", "no_table", "bad_count"}

ContractsTable ==
    [columns |-> <<"Specializzazione", "Contratti">>, rows |-> <<<<"Igiene", "2">>>>]

\* download_number_of_contracts: the status is asserted to be 200, a page
\* without a table raises ValueError, and so does int() of a last cell that
\* is no numeral.
download_number_of_contracts(page) ==
    CASE page = "http_500" -> Raise("AssertionError")
      [] page = "no_table" -> Raise("ValueError")
      [] page = "bad_count" -> Raise("ValueError")
      [] OTHER -> Ok(ContractsTable)

NothingIsCaught(e) == FALSE

\* except Exception as e: AssertionError, KeyError, TypeError and ValueError
\* all derive from Exception.
ExceptException(e) == e \in {"AssertionError", "KeyError", "TypeError", "ValueError"}

MinPtsError == "Error occurred while computing minimum points"

ContractsError == "Error occurred while downloading number of contracts"

AuxRows ==
    {<<<<"1", "2", spec, "Roma", "STAT">>, <<"2", tot, spec, "Roma", "STAT">>>> :
        spec \in {"Igiene", Absent}, tot \in {"1", ""}}

\* The rank Datasets grab hands over, cut down to the columns used here.
AuxDatasets ==
    {[columns |-> <<"#", "Tot", "Specializzazione", "Sede", "Contratto">>, rows |-> r] :
        r \in AuxRows}

AuxCalls ==
    [rank_df : AuxDatasets, save : BOOLEAN, skip_if_equal_to_last : BOOLEAN,
     backup : BOOLEAN, sheet_name : SheetNames, compute_min_pts : BOOLEAN,
     download_number_of_contracts : BOOLEAN]

\* The workbook on disk before the run: none, an unreadable one, or one
\* sheet saved by an earlier run.
AuxWorkbooks ==
    {NoFile, CorruptedFile}
    \cup {save_df(d, NoFile, n, "w") : d \in AuxDatasets, n \in SheetNames}

InitAux ==
    /\ pc = "called"
    /\ call \in AuxCalls
    /\ workbook \in AuxWorkbooks
    /\ backup_file = NoFile
    /\ log = <<>>
    /\ last_written = IF workbook.sheets = <<>> THEN NoLabel ELSE workbook.sheets[1].name
    /\ min_pts_df = None
    /\ number_of_contracts_df = None
    /\ YearIdle /\ LinkIdle /\ NameIdle /\ DiffIdle /\ GrabIdle /\ LimitIdle /\ RowIdle /\ NoteIdle

\* lines 201-229
ComputeMinPts ==
    /\ pc = "called"
    /\ IF ~call.compute_min_pts
       THEN pc' = "min_pts" /\ UNCHANGED <<min_pts_df, log>>
       ELSE IF min_pts(call.rank_df).err = NoError
       THEN /\ pc' = "min_pts"
            /\ min_pts_df' = Some(min_pts(call.rank_df).val)
            /\ UNCHANGED log
       ELSE IF ExceptException(min_pts(call.rank_df).err)
       THEN /\ pc' = "min_pts"
            /\ log' = Append(log, MinPtsError)
            /\ UNCHANGED min_pts_df
       ELSE pc' = "failed" /\ UNCHANGED <<min_pts_df, log>>
    /\ UNCHANGED <<workbook, backup_file, call, last_written, number_of_contracts_df, yearVars, linkVars,
                   nameVars, diffVars, grabVars, limitVars, rowVars, noteVars>>

\* lines 230-249
DownloadContracts ==
    /\ pc = "min_pts"
    /\ IF ~call.download_number_of_contracts
       THEN pc' = "contracts" /\ UNCHANGED <<number_of_contracts_df, log>>
       ELSE \E page \in ContractPages :
            IF download_number_of_contracts(page).err = NoError
            THEN /\ pc' = "contracts"
                 /\ number_of_contracts_df' = Some(download_number_of_contracts(page).val)
                 /\ UNCHANGED log
            ELSE IF ExceptException(download_number_of_contracts(page).err)
            THEN /\ pc' = "contracts"
                 /\ log' = Append(log, ContractsError)
                 /\ UNCHANGED number_of_contracts_df
            ELSE pc' = "failed" /\ UNCHANGED <<number_of_contracts_df, log>>
    /\ UNCHANGED <<workbook, backup_file, call, last_written, min_pts_df, yearVars, linkVars,
                   nameVars, diffVars, grabVars, limitVars, rowVars, noteVars>>

\* lines 251-316
SaveRankAfterAux ==
    /\ pc = "contracts"
    /\ pc' = "saved"
    /\ workbook' = save_rank(call, workbook, backup_file).workbook
    /\ backup_file' = save_rank(call, workbook, backup_file).backup_file
    /\ log' = Append(log, save_rank(call, workbook, backup_file).log)
    /\ last_written' = LastWritten(call, save_rank(call, workbook, backup_file).log, last_written)
    /\ UNCHANGED <<call, yearVars, linkVars, nameVars, diffVars, grabVars, limitVars,
                   rowVars, noteVars, auxVars>>

NextAux == ComputeMinPts \/ DownloadContracts \/ SaveRankAfterAux

SpecAux == InitAux /\ [][NextAux]_vars

Logged(line) == \E i \in 1..Len(log) : log[i] = line

\* C17: a failure of the minimum-score summary or of the download of the
\* contracts is logged and the run goes on: no step ends the run before the
\* rank Dataset is saved, the two computations leave the call, the workbook
\* and the backup as they found them, a failed one leaves its line in the
\* log and its result None, and the rank Dataset then goes through the
\* persistence step on the workbook as it was when the run began.
C17_AuxFailureNeverAborts ==
    [][/\ pc' # "failed"
       /\ pc = "called" =>
             /\ pc' = "min_pts"
             /\ UNCHANGED <<call, workbook, backup_file>>
             /\ (call.compute_min_pts /\ min_pts(call.rank_df).err # NoError) =>
                   log' = Append(log, MinPtsError) /\ min_pts_df' = None
       /\ pc = "min_pts" =>
             /\ pc' = "contracts"
             /\ UNCHANGED <<call, workbook, backup_file>>
             /\ number_of_contracts_df' = None =>
                   (call.download_number_of_contracts <=> log' = Append(log, ContractsError))
       /\ pc = "contracts" =>
             /\ pc' = "saved"
             /\ workbook' = save_rank(call, workbook, backup_file).workbook
             /\ backup_file' = save_rank(call, workbook, backup_file).backup_file
             /\ log'[Len(log')] = save_rank(call, workbook, backup_file).log]_vars

\* Both computations failed and the rank Dataset was compared with the last
\* snapshot and written.
C17_Witness ==
    /\ pc = "saved"
    /\ call.save /\ call.skip_if_equal_to_last
    /\ min_pts_df = None /\ number_of_contracts_df = None
    /\ log = <<MinPtsError, ContractsError, "Saved">>
    /\ Len(workbook.sheets) = 2

====
